---- MODULE Spec2Model ----
(***************************************************************************)
(* Model of the dynamic-programming cost matrix of seqalign                *)
(* (src/src/dynprog.rs): Matrix::align, Matrix::distance and               *)
(* Matrix::edit_script, run step by step over an edit operation set.       *)
(*                                                                         *)
(* An Option<T> of the source is a set with at most one element:           *)
(* None is {} and Some(v) is {v}.  Sequences are 1-based here, so the      *)
(* element the operations look at for cell (i, j) is source[i], target[j]. *)
(***************************************************************************)
EXTENDS Integers, Sequences, FiniteSets, TLC

VARIABLES ops, source, target, matrix, writes, pc, si, ti, script, result, failure

vars == <<ops, source, target, matrix, writes, pc, si, ti, script, result, failure>>

----------------------------------------------------------------------------
(* Bounds of the model *)

MaxLen == 2

Alphabet == {"a", "b"}

Min(S) == CHOOSE x \in S : \A y \in S : x <= y

Seqs == UNION {[1..k -> Alphabet] : k \in 0..MaxLen}

----------------------------------------------------------------------------
(* Edit operations (module ops) *)

Op(kind, cost) == [kind |-> kind, cost |-> cost]

StdKinds == {"match", "substitute", "insert", "delete"}

\* Operation::backtrack(source_idx, target_idx) -> Option<(usize, usize)>
BacktrackFrom(op, i, j) ==
    CASE op.kind \in {"match", "substitute"} ->
            IF i >= 1 /\ j >= 1 THEN {<<i - 1, j - 1>>} ELSE {}
      [] op.kind = "insert" -> IF j >= 1 THEN {<<i, j - 1>>} ELSE {}
      [] op.kind = "delete" -> IF i >= 1 THEN {<<i - 1, j>>} ELSE {}
      [] op.kind = "stuck"  -> {}
      [] op.kind = "peek"   -> IF j >= 1 THEN {<<i, j - 1>>} ELSE {}
      [] op.kind = "stay"   -> {<<i, j>>}

\* Operation::apply(matrix, source_idx, target_idx) -> Option<usize>
ApplyAt(op, mat, i, j) ==
    CASE op.kind = "match" ->
            IF i >= 1 /\ j >= 1 /\ source[i] = target[j]
            THEN {mat[i - 1][j - 1] + op.cost} ELSE {}
      [] op.kind = "substitute" ->
            IF i >= 1 /\ j >= 1 /\ source[i] # target[j]
            THEN {mat[i - 1][j - 1] + op.cost} ELSE {}
      [] op.kind = "insert" -> IF j >= 1 THEN {mat[i][j - 1] + op.cost} ELSE {}
      [] op.kind = "delete" -> IF i >= 1 THEN {mat[i - 1][j] + op.cost} ELSE {}
      [] op.kind = "stuck"  -> IF j >= 1 THEN {mat[i][j - 1] + op.cost} ELSE {}
      [] op.kind = "peek"   ->
            IF j >= 1 /\ i < Len(source)
            THEN {mat[i + 1][j - 1] + op.cost} ELSE {}
      [] op.kind = "stay"   -> {mat[i][j] + op.cost}

\* EditOperations::apply: the minimum over the applicable operations.
OpsApply(os, mat, i, j) ==
    LET candidates == UNION {ApplyAt(os[k], mat, i, j) : k \in 1..Len(os)}
    IN  IF candidates = {} THEN {} ELSE {Min(candidates)}

\* EditOperations::backtrack: the first operation, in declaration order,
\* that is applicable and whose candidate is the stored value.
OpsBacktrack(os, mat, i, j) ==
    IF i = 0 /\ j = 0 THEN {}
    ELSE LET ks == {k \in 1..Len(os) : ApplyAt(os[k], mat, i, j) = {mat[i][j]}}
         IN  IF ks = {} THEN {} ELSE {os[Min(ks)]}

----------------------------------------------------------------------------
(* Operation sets handed to align *)

Perms == {p \in [1..4 -> StdKinds] : \A a, b \in 1..4 : p[a] = p[b] => a = b}

\* c = <<substitute cost, insert cost, delete cost>>; match costs 0.
StdCost(kind, c) ==
    CASE kind = "match" -> 0
      [] kind = "substitute" -> c[1]
      [] kind = "insert" -> c[2]
      [] kind = "delete" -> c[3]

StdOps(p, c) == [k \in 1..4 |-> Op(p[k], StdCost(p[k], c))]

LevenstheinOrder == <<"insert", "delete", "match", "substitute">>

\* measures::levensthein
levensthein(c) == StdOps(LevenstheinOrder, c)

Unit == <<1, 1, 1>>

CostChoices == {<<s, i, d>> : s \in {1, 2, 3}, i \in {1, 2}, d \in {1, 2}}

StandardSets ==
    {StdOps(p, Unit) : p \in Perms}
        \cup {levensthein(c) : c \in CostChoices}

IncompleteSets ==
    { <<>>,
      <<Op("insert", 1)>>,
      <<Op("delete", 1)>>,
      <<Op("match", 0), Op("substitute", 1)>>,
      <<Op("match", 0), Op("substitute", 1), Op("insert", 1)>>,
      <<Op("match", 0), Op("insert", 1), Op("delete", 1)>> }

CustomSets ==
    { <<Op("stuck", 0)>> \o levensthein(Unit),
      <<Op("stuck", 1)>> \o levensthein(Unit),
      levensthein(Unit) \o <<Op("stuck", 1)>>,
      <<Op("peek", 0)>> \o levensthein(Unit),
      levensthein(Unit) \o <<Op("peek", 0)>>,
      <<Op("peek", 1)>> \o levensthein(Unit),
      <<Op("stay", 0)>> \o levensthein(Unit),
      levensthein(Unit) \o <<Op("stay", 0)>> }

OperationSets == StandardSets \cup IncompleteSets \cup CustomSets

IsStandard(os) ==
    /\ Len(os) = 4
    /\ {os[k].kind : k \in 1..4} = StdKinds
    /\ \A k \in 1..4 : os[k].kind = "match" => os[k].cost = 0

pineapple == <<"p", "i", "n", "e", "a", "p", "p", "l", "e">>
pen == <<"p", "e", "n">>
applet == <<"a", "p", "p", "l", "e", "t">>

hello == <<"h", "e", "l", "l", "o">>

\* The pairs of tests::distance_test, tests::edit_script_test and
\* tests::align_empty_test that are longer than the enumerated sequences.
TestPairs ==
    {<<pineapple, pen>>, <<pen, pineapple>>, <<pineapple, applet>>, <<applet, pen>>,
     <<hello, <<>> >>, << <<>>, hello>>}

----------------------------------------------------------------------------
(* Matrix *)

source_len == Len(source) + 1
target_len == Len(target) + 1

\* A looping edit_script is cut off once its script is longer than any path
\* through the matrix.
ScriptCap == Len(source) + Len(target) + 1

\* for target_idx in 0..target_len (second loop)
RowStartCol == 0

Row0StartAtOrigin == RowStartCol

\* for target_idx in 1..target_len (first loop)
Row0Start == 1

FirstRowIsRow0 == RowStartCol

\* for source_idx in 1..source_len
FirstRow == 1

NoApplicableRow0 == "No applicable operation"
NoApplicableRows == "No applicatble operation"
CannotBacktrack == "Cannot backtrack to cell 0, 0"

\* Matrix::distance
distance == matrix[Cardinality(DOMAIN matrix) - 1][Cardinality(DOMAIN matrix[0]) - 1]

ReversedNot(s) == s

\* script.reverse()
Reversed(s) == [k \in 1..Len(s) |-> s[Len(s) + 1 - k]]

ZeroedOnes == [i \in 0..(source_len - 1) |-> [j \in 0..(target_len - 1) |-> 1]]

\* vec![vec![0; target_len]; source_len]
Zeroed == [i \in 0..(source_len - 1) |-> [j \in 0..(target_len - 1) |-> 0]]

Init ==
    /\ \/ /\ ops \in OperationSets
          /\ source \in Seqs
          /\ target \in Seqs
       \/ /\ ops = levensthein(Unit)
          /\ \E p \in TestPairs : source = p[1] /\ target = p[2]
    /\ matrix = Zeroed
    /\ writes = [i \in 0..Len(source) |-> [j \in 0..Len(target) |-> 0]]
    /\ pc = "row0"
    /\ si = 0
    /\ ti = Row0Start
    /\ script = <<>>
    /\ result = "pending"
    /\ failure = "none"

----------------------------------------------------------------------------
(* Matrix::align *)

SetCell(mat, i, j, v) == [mat EXCEPT ![i][j] = v]

\* First loop: row 0, one cell per step.
FillRow0 ==
    /\ pc = "row0"
    /\ ti < target_len
    /\ OpsApply(ops, matrix, 0, ti) # {}
    /\ \E v \in OpsApply(ops, matrix, 0, ti) :
            /\ matrix' = SetCell(matrix, 0, ti, v)
            /\ writes' = SetCell(writes, 0, ti, writes[0][ti] + 1)
    /\ ti' = ti + 1
    /\ UNCHANGED <<ops, source, target, pc, si, script, result, failure>>

\* expect("No applicable operation") on None.
FillRow0Panic ==
    /\ pc = "row0"
    /\ ti < target_len
    /\ OpsApply(ops, matrix, 0, ti) = {}
    /\ pc' = "panicked"
    /\ failure' = NoApplicableRow0
    /\ UNCHANGED <<ops, source, target, matrix, writes, si, ti, script, result>>

Row0Done ==
    /\ pc = "row0"
    /\ ti >= target_len
    /\ pc' = "rows"
    /\ si' = FirstRow
    /\ ti' = RowStartCol
    /\ UNCHANGED <<ops, source, target, matrix, writes, script, result, failure>>

\* As FillCell, with column 0 left out as in the first loop.
FillCellSkipsColumn0 ==
    /\ pc = "rows"
    /\ si < source_len
    /\ ti < target_len
    /\ LET j == IF ti = RowStartCol THEN Row0Start ELSE ti
       IN  /\ j < target_len
           /\ \E v \in OpsApply(ops, matrix, si, j) :
                  /\ matrix' = SetCell(matrix, si, j, v)
                  /\ writes' = SetCell(writes, si, j, writes[si][j] + 1)
           /\ ti' = j + 1
    /\ UNCHANGED <<ops, source, target, pc, si, script, result, failure>>

\* Second loop: rows 1..m, one cell per step.
FillCell ==
    /\ pc = "rows"
    /\ si < source_len
    /\ ti < target_len
    /\ OpsApply(ops, matrix, si, ti) # {}
    /\ \E v \in OpsApply(ops, matrix, si, ti) :
            /\ matrix' = SetCell(matrix, si, ti, v)
            /\ writes' = SetCell(writes, si, ti, writes[si][ti] + 1)
    /\ ti' = ti + 1
    /\ UNCHANGED <<ops, source, target, pc, si, script, result, failure>>

\* As FillCellPanic, with the missing value replaced by 0 instead of a panic.
FillCellPanicSkips ==
    /\ pc = "rows"
    /\ si < source_len
    /\ ti < target_len
    /\ OpsApply(ops, matrix, si, ti) = {}
    /\ matrix' = SetCell(matrix, si, ti, 0)
    /\ writes' = SetCell(writes, si, ti, writes[si][ti] + 1)
    /\ ti' = ti + 1
    /\ UNCHANGED <<ops, source, target, pc, si, script, result, failure>>

\* expect("No applicatble operation") on None.
FillCellPanic ==
    /\ pc = "rows"
    /\ si < source_len
    /\ ti < target_len
    /\ OpsApply(ops, matrix, si, ti) = {}
    /\ pc' = "panicked"
    /\ failure' = NoApplicableRows
    /\ UNCHANGED <<ops, source, target, matrix, writes, si, ti, script, result>>

NextRow ==
    /\ pc = "rows"
    /\ si < source_len
    /\ ti >= target_len
    /\ si' = si + 1
    /\ ti' = RowStartCol
    /\ UNCHANGED <<ops, source, target, matrix, writes, pc, script, result, failure>>

AlignReturn ==
    /\ pc = "rows"
    /\ si >= source_len
    /\ pc' = "filled"
    /\ UNCHANGED <<ops, source, target, matrix, writes, si, ti, script, result, failure>>

----------------------------------------------------------------------------
(* Matrix::edit_script *)

EditScriptStart ==
    /\ pc = "filled"
    /\ pc' = "loop"
    /\ si' = Len(source)
    /\ ti' = Len(target)
    /\ script' = <<>>
    /\ UNCHANGED <<ops, source, target, matrix, writes, result, failure>>

\* As BacktrackStep, with the test for (0, 0) placed before the push.
BacktrackStepBreaksFirst ==
    /\ pc = "loop"
    /\ Len(script) < ScriptCap
    /\ \E op \in OpsBacktrack(ops, matrix, si, ti) :
         \E new \in BacktrackFrom(op, si, ti) :
            /\ si' = new[1]
            /\ ti' = new[2]
            /\ script' = IF new[1] = 0 /\ new[2] = 0 THEN script ELSE Append(script, op)
            /\ pc' = IF new[1] = 0 /\ new[2] = 0 THEN "asserts" ELSE "loop"
    /\ UNCHANGED <<ops, source, target, matrix, writes, result, failure>>

\* As BacktrackStep, without the move to the predecessor cell.
BacktrackStepStays ==
    /\ pc = "loop"
    /\ Len(script) < ScriptCap
    /\ \E op \in OpsBacktrack(ops, matrix, si, ti) :
         \E new \in BacktrackFrom(op, si, ti) :
            /\ script' = Append(script, op)
            /\ pc' = IF si = 0 /\ ti = 0 THEN "asserts" ELSE "loop"
    /\ UNCHANGED <<ops, source, target, matrix, writes, si, ti, result, failure>>

\* One iteration of the while-let loop that finds a predecessor.
BacktrackStep ==
    /\ pc = "loop"
    /\ Len(script) < ScriptCap
    /\ \E op \in OpsBacktrack(ops, matrix, si, ti) :
         \E new \in BacktrackFrom(op, si, ti) :
            /\ si' = new[1]
            /\ ti' = new[2]
            /\ script' = Append(script, op)
            /\ pc' = IF new[1] = 0 /\ new[2] = 0 THEN "asserts" ELSE "loop"
    /\ UNCHANGED <<ops, source, target, matrix, writes, result, failure>>

\* As BacktrackNoPred, with the missing predecessor unwrapped instead of
\* propagated.
BacktrackNoPredPanics ==
    /\ pc = "loop"
    /\ \E op \in OpsBacktrack(ops, matrix, si, ti) : BacktrackFrom(op, si, ti) = {}
    /\ pc' = "panicked"
    /\ failure' = CannotBacktrack
    /\ UNCHANGED <<ops, source, target, matrix, writes, si, ti, script, result>>

\* op.backtrack(source_idx, target_idx)? on None: edit_script returns None.
BacktrackNoPred ==
    /\ pc = "loop"
    /\ \E op \in OpsBacktrack(ops, matrix, si, ti) : BacktrackFrom(op, si, ti) = {}
    /\ pc' = "returned"
    /\ result' = "None"
    /\ UNCHANGED <<ops, source, target, matrix, writes, si, ti, script, failure>>

\* As LoopExit, with the missing operation propagated as the result.
LoopExitReturnsNone ==
    /\ pc = "loop"
    /\ OpsBacktrack(ops, matrix, si, ti) = {}
    /\ pc' = "returned"
    /\ result' = "None"
    /\ UNCHANGED <<ops, source, target, matrix, writes, si, ti, script, failure>>

\* The while-let pattern fails: self.ops.backtrack returned None.
LoopExit ==
    /\ pc = "loop"
    /\ OpsBacktrack(ops, matrix, si, ti) = {}
    /\ pc' = "asserts"
    /\ UNCHANGED <<ops, source, target, matrix, writes, si, ti, script, result, failure>>

\* assert_eq!(source_idx, 0, ..); assert_eq!(target_idx, 0, ..)
AssertFail ==
    /\ pc = "asserts"
    /\ (si # 0 \/ ti # 0)
    /\ pc' = "panicked"
    /\ failure' = CannotBacktrack
    /\ UNCHANGED <<ops, source, target, matrix, writes, si, ti, script, result>>

ReturnScript ==
    /\ pc = "asserts"
    /\ si = 0
    /\ ti = 0
    /\ script' = Reversed(script)
    /\ result' = "Some"
    /\ pc' = "returned"
    /\ UNCHANGED <<ops, source, target, matrix, writes, si, ti, failure>>

Next ==
    \/ FillRow0
    \/ FillRow0Panic
    \/ Row0Done
    \/ FillCell
    \/ FillCellPanic
    \/ NextRow
    \/ AlignReturn
    \/ EditScriptStart
    \/ BacktrackStep
    \/ BacktrackNoPred
    \/ LoopExit
    \/ AssertFail
    \/ ReturnScript

Spec == Init /\ [][Next]_vars

\* The code is sequential: a step that can be taken is taken.
FairSpec == Spec /\ WF_vars(Next)

----------------------------------------------------------------------------
(* Reference definitions used by the properties *)

Terminal == {"returned", "panicked"}

CostOfKind(os, kind) == os[CHOOSE k \in 1..Len(os) : os[k].kind = kind].cost

Prefix(s, k) == SubSeq(s, 1, k)

\* The total costs of all edit scripts that turn s into t, by enumeration of
\* the scripts from their first operation on.
RECURSIVE ScriptCosts(_, _, _)
ScriptCosts(os, s, t) ==
    IF s = <<>> /\ t = <<>> THEN {0}
    ELSE (IF s # <<>>
          THEN {c + CostOfKind(os, "delete") : c \in ScriptCosts(os, Tail(s), t)}
          ELSE {})
         \cup
         (IF t # <<>>
          THEN {c + CostOfKind(os, "insert") : c \in ScriptCosts(os, s, Tail(t))}
          ELSE {})
         \cup
         (IF s # <<>> /\ t # <<>>
          THEN {c + (IF Head(s) = Head(t) THEN CostOfKind(os, "match")
                                         ELSE CostOfKind(os, "substitute")) :
                    c \in ScriptCosts(os, Tail(s), Tail(t))}
          ELSE {})

MinCost(os, s, t) == Min(ScriptCosts(os, s, t))

\* C1: with a standard operation set, once align has returned every cell
\* (i, j) of the matrix holds the minimum total cost of an edit script from
\* source[0..i) to target[0..j), and distance() is the minimum for the whole
\* sequences.
C1_MatrixIsMinimalCost ==
    (pc = "filled" /\ IsStandard(ops)) =>
        /\ \A i \in 0..Len(source) : \A j \in 0..Len(target) :
                matrix[i][j] = MinCost(ops, Prefix(source, i), Prefix(target, j))
        /\ distance = MinCost(ops, source, target)

C1_Witness ==
    /\ pc = "filled"
    /\ IsStandard(ops)
    /\ CostOfKind(ops, "substitute") = 3
    /\ Len(source) = 2
    /\ Len(target) = 2
    /\ source[1] # target[1]
    /\ source[2] = target[2]
    /\ distance = 2

\* The result of applying the first k operations of scr to source: how many
\* source elements were consumed, the output so far, and whether every
\* operation had the elements it needs.  match copies the source element,
\* substitute and insert emit the next target element, delete emits nothing.
RECURSIVE RunScript(_, _)
RunScript(scr, k) ==
    IF k = 0 THEN [used |-> 0, out |-> <<>>, ok |-> TRUE]
    ELSE LET r == RunScript(scr, k - 1)
             kind == scr[k].kind
             hasSrc == r.used < Len(source)
             hasTgt == Len(r.out) < Len(target)
         IN  IF ~r.ok THEN r
             ELSE CASE kind = "match" ->
                         IF hasSrc
                         THEN [used |-> r.used + 1,
                               out |-> Append(r.out, source[r.used + 1]), ok |-> TRUE]
                         ELSE [r EXCEPT !.ok = FALSE]
                    [] kind = "substitute" ->
                         IF hasSrc /\ hasTgt
                         THEN [used |-> r.used + 1,
                               out |-> Append(r.out, target[Len(r.out) + 1]), ok |-> TRUE]
                         ELSE [r EXCEPT !.ok = FALSE]
                    [] kind = "insert" ->
                         IF hasTgt
                         THEN [used |-> r.used,
                               out |-> Append(r.out, target[Len(r.out) + 1]), ok |-> TRUE]
                         ELSE [r EXCEPT !.ok = FALSE]
                    [] kind = "delete" ->
                         IF hasSrc
                         THEN [r EXCEPT !.used = r.used + 1]
                         ELSE [r EXCEPT !.ok = FALSE]
                    [] OTHER -> [r EXCEPT !.ok = FALSE]

Transforms(scr) ==
    LET r == RunScript(scr, Len(scr))
    IN  r.ok /\ r.used = Len(source) /\ r.out = target

RECURSIVE CostSum(_, _)
CostSum(scr, k) == IF k = 0 THEN 0 ELSE CostSum(scr, k - 1) + scr[k].cost

Kinds(scr) == [k \in 1..Len(scr) |-> scr[k].kind]

\* C2: with a standard operation set, edit_script returns a script that,
\* applied in order to source, produces exactly target, and whose operation
\* costs add up to distance().
C2_ScriptIsValid ==
    (pc = "returned" /\ IsStandard(ops)) =>
        /\ result = "Some"
        /\ Transforms(script)
        /\ CostSum(script, Len(script)) = distance

C2_Witness ==
    /\ pc = "returned"
    /\ IsStandard(ops)
    /\ result = "Some"
    /\ ops # levensthein(Unit)
    /\ Len(source) = 2
    /\ Len(script) = 3
    /\ Cardinality({script[k].kind : k \in 1..Len(script)}) = 3

\* The operation-kind sequences asserted by tests::edit_script_test.
ExpectedScript(s, t) ==
    CASE s = pineapple /\ t = pen ->
            <<"match", "substitute", "match", "delete", "delete", "delete",
              "delete", "delete", "delete">>
      [] s = pen /\ t = pineapple ->
            <<"match", "substitute", "match", "insert", "insert", "insert",
              "insert", "insert", "insert">>
      [] s = pineapple /\ t = applet ->
            <<"delete", "delete", "delete", "delete", "match", "match", "match",
              "match", "match", "insert">>

TestedScripts == {<<pineapple, pen>>, <<pen, pineapple>>, <<pineapple, applet>>}

\* The operation the loop of edit_script has just pushed is the first one in
\* declaration order that is applicable at the visited cell with a candidate
\* cost equal to the stored value.
FirstListedWins ==
    (pc = "loop" /\ script' # script) =>
        /\ Len(script') = Len(script) + 1
        /\ \E k \in 1..Len(ops) :
              /\ script'[Len(script')] = ops[k]
              /\ ApplyAt(ops[k], matrix, si, ti) = {matrix[si][ti]}
              /\ \A h \in 1..(k - 1) : ApplyAt(ops[h], matrix, si, ti) # {matrix[si][ti]}
        /\ IsStandard(ops) =>
              \A k \in 1..Len(ops) : \A c \in ApplyAt(ops[k], matrix, si, ti) :
                  matrix[si][ti] <= c

\* C3: ties are resolved by declaration order, first-listed wins: every
\* operation placed in the script is the first applicable one whose candidate
\* equals the stored value of the visited cell, and under the unit-cost preset
\* this rule yields the scripts the tests assert.
C3_TieBreakByDeclarationOrder ==
    /\ [][FirstListedWins]_vars
    /\ []((pc = "returned" /\ ops = levensthein(Unit)
                /\ <<source, target>> \in TestedScripts) =>
            (result = "Some" /\ Kinds(script) = ExpectedScript(source, target)))

\* A tie between delete and substitute at the last cell of pineapple -> pen,
\* resolved for delete.
C3_Witness ==
    /\ pc = "returned"
    /\ ops = levensthein(Unit)
    /\ source = pineapple
    /\ target = pen
    /\ result = "Some"
    /\ ApplyAt(Op("substitute", 1), matrix, 9, 3) = {matrix[9][3]}
    /\ ApplyAt(Op("delete", 1), matrix, 9, 3) = {matrix[9][3]}
    /\ script[9].kind = "delete"

OnlyStdKinds(os) == \A k \in 1..Len(os) : os[k].kind \in StdKinds

Cells == (0..Len(source)) \X (0..Len(target))

\* C4: with a standard operation set row 0 of the matrix is j * insert cost
\* and column 0 is i * delete cost, so distance(A, empty) is
\* len(A) * delete cost and distance(empty, A) is len(A) * insert cost.
C4_EmptySideDistance ==
    (pc = "filled" /\ IsStandard(ops)) =>
        /\ \A j \in 0..Len(target) : matrix[0][j] = j * CostOfKind(ops, "insert")
        /\ \A i \in 0..Len(source) : matrix[i][0] = i * CostOfKind(ops, "delete")
        /\ target = <<>> => distance = Len(source) * CostOfKind(ops, "delete")
        /\ source = <<>> => distance = Len(target) * CostOfKind(ops, "insert")

C4_Witness ==
    /\ pc = "filled"
    /\ IsStandard(ops)
    /\ CostOfKind(ops, "insert") = 2
    /\ CostOfKind(ops, "delete") = 1
    /\ source = <<>>
    /\ Len(target) = 2
    /\ distance = 4

\* C5: aligning the empty source with the empty target gives distance 0 and
\* edit_script returns Some of the empty script: no cell is ever written, no
\* operation is pushed and nothing fails.
C5_EmptyPair ==
    (source = <<>> /\ target = <<>> /\ OnlyStdKinds(ops)) =>
        /\ distance = 0
        /\ writes[0][0] = 0
        /\ script = <<>>
        /\ pc # "panicked"
        /\ pc = "returned" => result = "Some"

C5_Witness ==
    /\ source = <<>>
    /\ target = <<>>
    /\ ops = levensthein(Unit)
    /\ pc = "returned"
    /\ result = "Some"
    /\ script = <<>>

Filling == pc \in {"row0", "rows"}

\* The cell the fill loops are at (row 0 while the first loop runs).
CurRow == IF pc = "row0" THEN 0 ELSE si

AtCell == Filling /\ CurRow < source_len /\ ti < target_len

\* Row-major order of the cells.
Precedes(c, i, j) == c[1] < i \/ (c[1] = i /\ c[2] < j)

NoApplicable == {NoApplicableRow0, NoApplicableRows}

\* A fill step at a cell where no operation applies panics and leaves the
\* matrix alone.
AbortsAtOnce ==
    (AtCell /\ OpsApply(ops, matrix, CurRow, ti) = {}) =>
        /\ pc' = "panicked"
        /\ failure' \in NoApplicable
        /\ matrix' = matrix
        /\ writes' = writes

\* C6: when no operation is applicable at a non-origin cell, align panics at
\* that cell with the "no applicable operation" failure: that cell and every
\* later one stay unwritten, nothing runs after the panic, and a matrix is
\* only ever returned (and a distance read) when every non-origin cell was
\* written.
C6_AbortOnNoApplicableOperation ==
    /\ [][AbortsAtOnce]_vars
    /\ [][pc = "panicked" => UNCHANGED vars]_vars
    /\ []((pc = "panicked" /\ failure \in NoApplicable) =>
            /\ result = "pending"
            /\ <<CurRow, ti>> # <<0, 0>>
            /\ OpsApply(ops, matrix, IF failure = NoApplicableRow0 THEN 0 ELSE si, ti) = {}
            /\ \A c \in Cells :
                  ~Precedes(c, IF failure = NoApplicableRow0 THEN 0 ELSE si, ti)
                      => writes[c[1]][c[2]] = 0)
    /\ [](pc \in {"filled", "loop", "asserts", "returned"} =>
            \A c \in Cells : c # <<0, 0>> => writes[c[1]][c[2]] = 1)

C6_Witness ==
    /\ pc = "panicked"
    /\ failure = NoApplicableRows
    /\ si = 1
    /\ ti = 0
    /\ Len(target) = 2
    /\ writes[0][2] = 1
    /\ writes[1][0] = 0

\* What the fill has done when it stands at (or has stopped at) cell (i, j).
FilledUpTo(i, j) ==
    \A c \in Cells :
        writes[c[1]][c[2]] = IF c # <<0, 0>> /\ Precedes(c, i, j) THEN 1 ELSE 0

\* C9: the fill goes through row 0 for j = 1..n and then rows 1..m for
\* j = 0..n.  Cell (0, 0) is never computed and stays 0, no cell is written
\* twice, every non-origin cell has been written once when align returns, a
\* written cell never changes, and when a cell is computed its neighbours
\* (i-1, j-1), (i-1, j) and (i, j-1) are the origin or already written.
C9_FillOrder ==
    /\ [](/\ matrix[0][0] = 0
          /\ writes[0][0] = 0
          /\ \A c \in Cells : writes[c[1]][c[2]] <= 1)
    /\ [](Filling =>
            /\ <<CurRow, ti>> # <<0, 0>>
            /\ FilledUpTo(CurRow, ti))
    /\ [](AtCell =>
            \A d \in {<<1, 1>>, <<1, 0>>, <<0, 1>>} :
                LET c == <<CurRow - d[1], ti - d[2]>>
                IN  (c \in Cells /\ c # <<0, 0>>) => writes[c[1]][c[2]] = 1)
    /\ [](pc \in {"filled", "loop", "asserts", "returned"} =>
            FilledUpTo(source_len, 0))
    /\ [][\A c \in Cells :
            writes[c[1]][c[2]] = 1 =>
                (matrix'[c[1]][c[2]] = matrix[c[1]][c[2]] /\ writes'[c[1]][c[2]] = 1)]_vars

C9_Witness ==
    /\ pc = "rows"
    /\ si = 2
    /\ ti = 1
    /\ Len(target) = 2
    /\ writes[2][0] = 1
    /\ writes[1][2] = 1
    /\ writes[2][1] = 0
    /\ matrix[2][0] > matrix[1][0]

InEditScript == pc \in {"loop", "asserts"}

\* C7 as stated: whenever edit_script comes back with a result, backtracking
\* had reached cell (0, 0); every other end of backtracking is the panic.
C7_StuckAlwaysPanics ==
    pc = "returned" => (si = 0 /\ ti = 0)

\* C7, amended: when EditOperations::backtrack selects no operation at a
\* non-origin cell, edit_script leaves the loop and panics with "Cannot
\* backtrack to cell 0, 0", a failure distinct from those of the fill and only
\* raised on a fully filled matrix; when the selected operation reports no
\* predecessor, edit_script does not panic, it returns None.
C7_PanicOnlyWhenNoOperationSelected ==
    /\ [][(pc = "loop" /\ <<si, ti>> # <<0, 0>> /\ OpsBacktrack(ops, matrix, si, ti) = {})
            => (pc' = "asserts" /\ si' = si /\ ti' = ti)]_vars
    /\ [][(pc = "asserts" /\ <<si, ti>> # <<0, 0>>)
            => (pc' = "panicked" /\ failure' = CannotBacktrack /\ result' = "pending")]_vars
    /\ [](CannotBacktrack \notin NoApplicable)
    /\ []((pc = "panicked" /\ failure = CannotBacktrack) =>
            /\ <<si, ti>> # <<0, 0>>
            /\ OpsBacktrack(ops, matrix, si, ti) = {}
            /\ \A c \in Cells : c # <<0, 0>> => writes[c[1]][c[2]] = 1)
    /\ []((pc = "panicked" /\ failure \in NoApplicable) => script = <<>>)
    /\ []((pc = "returned" /\ result = "None") =>
            /\ failure = "none"
            /\ \E op \in OpsBacktrack(ops, matrix, si, ti) : BacktrackFrom(op, si, ti) = {})

C7_Witness ==
    /\ pc = "panicked"
    /\ failure = CannotBacktrack
    /\ script # <<>>
    /\ <<si, ti>> # <<Len(source), Len(target)>>
    /\ OpsApply(ops, matrix, si, ti) # {}

\* Walking back from cell c through the last k operations of scr, each one
\* being the operation selected at the cell it leaves, ends in cell (0, 0).
RECURSIVE WalksBack(_, _, _)
WalksBack(scr, k, c) ==
    IF k = 0 THEN c = <<0, 0>>
    ELSE /\ c # <<0, 0>>
         /\ OpsBacktrack(ops, matrix, c[1], c[2]) = {scr[k]}
         /\ \E p \in BacktrackFrom(scr[k], c[1], c[2]) : WalksBack(scr, k - 1, p)

CompletePath(scr) == WalksBack(scr, Len(scr), <<Len(source), Len(target)>>)

\* C8 as stated: a matrix that cannot be backtracked makes edit_script
\* return None, so edit_script itself never panics.
C8_StuckAlwaysReturnsNone ==
    pc = "panicked" => failure \in NoApplicable

\* C8, amended: edit_script returns None when, and only when, the operation
\* selected at the visited cell reports no predecessor (the other way of
\* getting stuck, no operation selected at a non-origin cell, panics); a
\* script it returns is the complete path from (0, 0) to (m, n).
C8_NoneOnlyWhenNoPredecessor ==
    /\ [][(pc = "loop"
            /\ \E op \in OpsBacktrack(ops, matrix, si, ti) : BacktrackFrom(op, si, ti) = {})
            => (pc' = "returned" /\ result' = "None" /\ failure' = "none")]_vars
    /\ []((pc = "returned" /\ result = "None") =>
            /\ <<si, ti>> # <<0, 0>>
            /\ \E op \in OpsBacktrack(ops, matrix, si, ti) : BacktrackFrom(op, si, ti) = {})
    /\ []((pc = "returned" /\ result = "Some") => CompletePath(script))
    /\ []((pc = "panicked" /\ failure = CannotBacktrack) => result = "pending")

C8_Witness ==
    /\ pc = "returned"
    /\ result = "None"
    /\ script # <<>>
    /\ <<si, ti>> # <<Len(source), Len(target)>>

\* Operation::backtrack only ever moves to a cell that is no larger in either
\* coordinate and smaller in at least one.
BacktrackDecreases(os) ==
    \A k \in 1..Len(os) : \A c \in Cells :
        \A p \in BacktrackFrom(os[k], c[1], c[2]) :
            p[1] <= c[1] /\ p[2] <= c[2] /\ p # c

\* C10: if every operation's backtrack moves strictly towards (0, 0),
\* edit_script terminates: each iteration strictly decreases the visited
\* cell, the loop is left as soon as (0, 0) is reached, and the script has at
\* most m + n operations.
C10_EditScriptTerminates ==
    /\ [][(pc = "loop" /\ pc' \in {"loop", "asserts"}
                /\ <<si', ti', script'>> # <<si, ti, script>>
                /\ BacktrackDecreases(ops))
            => (si' <= si /\ ti' <= ti /\ <<si', ti'>> # <<si, ti>>)]_vars
    /\ []((pc = "loop" /\ script # <<>> /\ BacktrackDecreases(ops)) => <<si, ti>> # <<0, 0>>)
    /\ []((Len(script) > Len(source) + Len(target)) => ~BacktrackDecreases(ops))
    /\ (BacktrackDecreases(ops) => <>(pc \in Terminal))

C10_Witness ==
    /\ pc = "returned"
    /\ BacktrackDecreases(ops)
    /\ result = "Some"
    /\ Len(source) = 2
    /\ Len(target) = 2
    /\ Len(script) = 4

====
